---------------------------- MODULE Spec2Model ----------------------------
(***************************************************************************)
(* Bulk game ingestion of games_webapp (server/internal/controllers,       *)
(* server/internal/services, utils): the handlers CreateMultiGamesDB and   *)
(* CreateMultiGamesIGDB, the per-item pipelines createSingleGame and       *)
(* createThroughIGDB, and the catalog / blob store calls they make.        *)
(*                                                                         *)
(* Spec        : one request, every pipeline stepped call by call.         *)
(* SpecSem     : one request large enough to exhaust the permits; a        *)
(*               pipeline is one step from its call to its return.         *)
(* SpecUploads : goroutines calling SaveImage, DeleteImage and             *)
(*               ReplaceImage of storage/uploads, stepped file call by     *)
(*               file call.                                                *)
(* SpecLinks   : the handlers Create, Update, UpdatePriority, UpdateStatus *)
(*               and the service CreateUserGame, one request after the     *)
(*               other, on the tables games and user_games.                *)
(***************************************************************************)
EXTENDS Integers, Sequences, FiniteSets, TLC

\* ------------------------------------------------------------------ bounds
MaxGames == 2          \* largest accepted batch stepped in detail (Spec)
MaxTime == 1           \* seconds the wall clock may advance during a batch
Extra == 1             \* items beyond maxWorkers in the batch of SpecSem
MaxRequests == 3       \* requests handled one after the other (SpecLinks)
MaxRows == 2           \* games those requests may create (SpecLinks)
MaxCallers == 2        \* goroutines that call the blob store at once (SpecUploads)

\* ------------------------------------------------------- program constants
maxWorkers == 10       \* capacity of sem
MaxBatch == 100        \* len(request.Games) > 100 is rejected
StatusCreated == 201
StatusMultiStatus == 207
StatusOK == 200
StatusBadRequest == 400
StatusUnauthorized == 401
StatusNotFound == 404
StatusInternalServerError == 500

\* ------------------------------------------------------------------ inputs
Names == {"Portal"}
Sources == {"Wiki", "Steam", "Epic"}
NoUser == 0
Users == {NoUser, 1}
NoImage == <<>>
NoURL == <<>>
NoRet == [kind |-> "none"]

RequestGame == [name : Names, source : Sources]

\* the request of the catalog endpoint carries no source
RequestGameIGDB == [name : Names, source : {""}]

SeqUpTo(S, n) == UNION {[1..k -> S] : k \in 0..n}

\* one request longer than MaxBatch
Oversize(src) == [i \in 1..(MaxBatch + 1) |-> [name |-> "Portal", source |-> src]]

WikiURL(name) == <<"wiki", name>>
SteamURL(name) == <<"steam", name>>
IGDBURL(name) == <<"igdb", name>>

VARIABLES
  variant,       \* "DB": CreateMultiGamesDB, "IGDB": CreateMultiGamesIGDB
  userID,        \* ctx.Value(middleware.UserIDKey); NoUser when absent
  games,         \* request.Games
  hpc,           \* position of the handler
  status,        \* status written by the handler, 0 before
  tokenReqs,     \* number of loginTwitch calls
  next,          \* index of the next item of the dispatch loop
  sem,           \* len(sem): permits held
  wg,            \* WaitGroup counter
  closed,        \* errChan and resultsChan closed
  ctxDone,       \* ctx.Done() is closed
  wpc,           \* position of every worker
  wurl,          \* canonical URL a pipeline resolved
  wimg,          \* imageFilename of a pipeline
  wid,           \* createdGame.ID of a pipeline, 0 before the insert
  wret,          \* what the pipeline returns
  calls,         \* external calls a pipeline has made, in order
  errChan,
  resultsChan,
  errors,
  createdGames,
  catalog,       \* table games
  nextID,        \* auto-increment of games.id
  userGames,     \* table user_games
  blobs,         \* files of the uploads folder
  now,           \* the last second time.Now() returned to generateImageFilename
  files,         \* the uploads folder: path -> bytes of the file
  mu,            \* Uploads.mu: the caller that holds it, 0 when free
  upc,           \* position of every caller of the blob store
  uop,           \* the call a caller makes
  ures,          \* what the call returned
  lastCall       \* the last request of SpecLinks, numbered

reqVars == <<variant, userID, games>>
handlerVars == <<hpc, status, tokenReqs, next, sem, wg, closed>>
workerVars == <<wpc, wurl, wimg, wid, wret, calls>>
chanVars == <<errChan, resultsChan, errors, createdGames>>
storeVars == <<catalog, nextID, userGames, blobs>>
ingestVars == <<reqVars, handlerVars, workerVars, chanVars, storeVars, ctxDone, now>>
upVars == <<files, mu, upc, uop, ures>>
vars == <<ingestVars, upVars, lastCall>>

N == Len(games)
Workers == 1..N

\* ------------------------------------------------------------- pure parts

\* mutant of BadBatch: the upper limit off by one
BadBatch_OffByOne(n) == n = 0 \/ n > MaxBatch + 1

\* len(request.Games) == 0 || len(request.Games) > 100
BadBatch(n) == n = 0 \/ n > MaxBatch

\* mutant of StatusOf: the two failure statuses swapped
StatusOf_Swapped(nErr, nOk) ==
  IF nErr > 0
    THEN IF nOk = 0 THEN StatusMultiStatus ELSE StatusInternalServerError
    ELSE StatusCreated

\* the status the handler derives from the two lists
StatusOf(nErr, nOk) ==
  IF nErr > 0
    THEN IF nOk = 0 THEN StatusInternalServerError ELSE StatusMultiStatus
    ELSE StatusCreated

\* mutant of Unauthorized: the zero id of an absent user passes
Unauthorized_Strict(u) == u < 0

\* userID, ok := ctx.Value(UserIDKey).(int64); !ok || userID <= 0
Unauthorized(u) == u <= 0

\* mutant of InvalidSource: the check of the source left out
InvalidSource_Skipped(src) == FALSE

\* source != "Wiki" && source != "Steam"
InvalidSource(src) == src # "Wiki" /\ src # "Steam"

\* generateImageFilename: a hash of the second and the URL
generateImageFilename(url, t) == <<t, url>>

\* mutant of GameExists: the lookup is not restricted to the url
GameExists_AnyURL(url, dbErr) == ~dbErr /\ catalog # {}

\* GetGameByURL: a row with this url exists (a query error hides the row)
GameExists(url, dbErr) == ~dbErr /\ \E g \in catalog : g.url = url

\* the reasons whose message of createSingleGame embeds the item's name:
\* "exists" is service.Create refusing a URL the catalog holds, "create" any
\* other failure of service.Create
NamedReasons == {"resolve", "parse", "create", "exists", "link"}

\* an entry of errChan: a GameError{Name, Err} of the catalog endpoint, a bare
\* message of the other. createThroughIGDB returns the one ErrCreateGame for
\* every failure past its head, createSingleGame a message that carries the cause
Fail(i, reason) ==
  [kind |-> "err",
   name |-> IF variant = "IGDB" \/ reason \in NamedReasons THEN games[i].name ELSE "",
   reason |-> IF variant = "IGDB" /\ reason \in NamedReasons THEN "ErrCreateGame" ELSE reason]

\* the positions between the checks at the head of a pipeline and its return
InPipeline(pc) ==
  pc \in {"resolve", "igdb", "check", "parse", "image", "create", "insert", "cleanup", "link"}

\* the *models.Game a pipeline returns
Ok(i) == [kind |-> "ok", id |-> wid[i], url |-> wurl[i], image |-> wimg[i]]

Log(i, cs) == calls' = [calls EXCEPT ![i] = calls[i] \o cs]

Goto(i, pc) == wpc' = [wpc EXCEPT ![i] = pc]

Return(i, r) == wpc' = [wpc EXCEPT ![i] = "ret"] /\ wret' = [wret EXCEPT ![i] = r]

\* ---------------------------------------------------------------- initial

InitStores ==
  /\ catalog = {} /\ nextID = 1 /\ userGames = {} /\ blobs = {} /\ now = 0

Callers == 1..MaxCallers

NoCall == [op |-> "none"]

NoRequest ==
  [op |-> "none", user |-> 0, game |-> 0, priority |-> 0, status |-> "", err |-> FALSE,
   seq |-> 0]

\* no call of the blob store is under way (NewUploads has returned)
InitCallers ==
  /\ mu = 0
  /\ upc = [c \in Callers |-> "idle"]
  /\ uop = [c \in Callers |-> NoCall]
  /\ ures = [c \in Callers |-> "none"]

InitHandler ==
  /\ hpc = "recv" /\ status = 0 /\ tokenReqs = 0
  /\ next = 1 /\ sem = 0 /\ wg = 0 /\ closed = FALSE /\ ctxDone = FALSE
  /\ errChan = <<>> /\ resultsChan = <<>> /\ errors = <<>> /\ createdGames = <<>>

InitWorkers ==
  /\ wpc = [i \in Workers |-> "idle"]
  /\ wurl = [i \in Workers |-> NoURL]
  /\ wimg = [i \in Workers |-> NoImage]
  /\ wid = [i \in Workers |-> 0]
  /\ wret = [i \in Workers |-> NoRet]
  /\ calls = [i \in Workers |-> <<>>]

Init ==
  /\ variant \in {"DB", "IGDB"}
  /\ userID \in Users
  /\ \/ variant = "DB" /\ games \in SeqUpTo(RequestGame, MaxGames) \cup {Oversize("Wiki")}
     \/ variant = "IGDB" /\ games \in SeqUpTo(RequestGameIGDB, MaxGames) \cup {Oversize("")}
  /\ InitHandler /\ InitWorkers /\ InitStores
  /\ files = <<>> /\ InitCallers /\ lastCall = NoRequest

\* ---------------------------------------------------------------- handler

\* the length checks of the handler
Validate ==
  /\ hpc = "recv"
  /\ IF BadBatch(N)
       THEN hpc' = "rejected" /\ status' = StatusBadRequest
       ELSE hpc' = (IF variant = "IGDB" THEN "login" ELSE "dispatch") /\ status' = status
  /\ UNCHANGED <<reqVars, upVars, lastCall, tokenReqs, next, sem, wg, closed, workerVars, chanVars,
                 storeVars, ctxDone, now>>

\* access, err := c.loginTwitch()
Login ==
  /\ hpc = "login"
  /\ tokenReqs' = tokenReqs + 1
  /\ \/ hpc' = "dispatch" /\ status' = status
     \/ hpc' = "rejected" /\ status' = StatusInternalServerError
  /\ UNCHANGED <<reqVars, upVars, lastCall, next, sem, wg, closed, workerVars, chanVars, storeVars,
                 ctxDone, now>>

\* mutant of CanAcquire: the send on sem never blocks
CanAcquire_Unbounded == TRUE

\* sem <- struct{}{} does not block
CanAcquire == sem < maxWorkers

\* one round of the dispatch loop: take a permit, wg.Add(1), go func
Dispatch ==
  /\ hpc = "dispatch" /\ next <= N
  /\ CanAcquire
  /\ sem' = sem + 1 /\ wg' = wg + 1 /\ next' = next + 1
  /\ Goto(next, "start")
  /\ UNCHANGED <<reqVars, upVars, lastCall, hpc, status, tokenReqs, closed, wurl, wimg, wid, wret, calls,
                 chanVars, storeVars, ctxDone, now>>

\* the loop is over: the closer goroutine is started, the handler ranges over errChan
DispatchDone ==
  /\ hpc = "dispatch" /\ next > N
  /\ hpc' = "collectErr"
  /\ UNCHANGED <<reqVars, upVars, lastCall, status, tokenReqs, next, sem, wg, closed, workerVars,
                 chanVars, storeVars, ctxDone, now>>

\* mutant of AllDone: the channels are closed without waiting for the workers
AllDone_NoWait == TRUE

\* wg.Wait() returns
AllDone == wg = 0

\* go func() { wg.Wait(); close(errChan); close(resultsChan) }()
Closer ==
  /\ hpc \in {"collectErr", "collectRes"} /\ ~closed
  /\ AllDone
  /\ closed' = TRUE
  /\ UNCHANGED <<reqVars, upVars, lastCall, hpc, status, tokenReqs, next, sem, wg, workerVars, chanVars,
                 storeVars, ctxDone, now>>

\* for err := range errChan
CollectErr ==
  /\ hpc = "collectErr"
  /\ IF errChan # <<>>
       THEN /\ errors' = Append(errors, Head(errChan))
            /\ errChan' = Tail(errChan)
            /\ hpc' = hpc
       ELSE /\ closed
            /\ hpc' = "collectRes"
            /\ UNCHANGED <<errors, errChan>>
  /\ UNCHANGED <<reqVars, upVars, lastCall, status, tokenReqs, next, sem, wg, closed, workerVars,
                 resultsChan, createdGames, storeVars, ctxDone, now>>

\* for res := range resultsChan
CollectRes ==
  /\ hpc = "collectRes"
  /\ IF resultsChan # <<>>
       THEN /\ createdGames' = Append(createdGames, Head(resultsChan))
            /\ resultsChan' = Tail(resultsChan)
            /\ hpc' = hpc
       ELSE /\ closed
            /\ hpc' = "respond"
            /\ UNCHANGED <<createdGames, resultsChan>>
  /\ UNCHANGED <<reqVars, upVars, lastCall, status, tokenReqs, next, sem, wg, closed, workerVars,
                 errChan, errors, storeVars, ctxDone, now>>

\* w.WriteHeader(status); the deferred cancel() runs when the handler returns
Respond ==
  /\ hpc = "respond"
  /\ status' = StatusOf(Len(errors), Len(createdGames))
  /\ hpc' = "done"
  /\ UNCHANGED <<reqVars, upVars, lastCall, tokenReqs, next, sem, wg, closed, workerVars, chanVars,
                 storeVars, ctxDone, now>>

\* the 10 s of context.WithTimeout elapse (or the client goes away)
Deadline ==
  /\ hpc \in {"dispatch", "collectErr", "collectRes"}
  /\ ~ctxDone
  /\ ctxDone' = TRUE
  /\ UNCHANGED <<reqVars, upVars, lastCall, handlerVars, workerVars, chanVars, storeVars, now>>

\* ---------------------------------------------------------------- workers

CoverURL(url) == <<"cover", url>>

\* mutant of HeadError: the head does not look at the deadline
HeadError_NoDeadline(i) ==
  IF Unauthorized(userID)
    THEN Fail(i, "ErrUnauthorized")
    ELSE IF variant = "DB" /\ InvalidSource(games[i].source)
      THEN Fail(i, "ErrInvalidSource")
      ELSE NoRet

\* what the head of createSingleGame / createThroughIGDB returns: ctx.Done(), then
\* the user id, then the source; NoRet when the pipeline goes on
HeadError(i) ==
  IF ctxDone
    THEN Fail(i, IF variant = "IGDB" THEN "ErrUnknown" ELSE "ctx.Err")
    ELSE IF Unauthorized(userID)
      THEN Fail(i, "ErrUnauthorized")
      ELSE IF variant = "DB" /\ InvalidSource(games[i].source)
        THEN Fail(i, "ErrInvalidSource")
        ELSE NoRet

\* the head of createSingleGame / createThroughIGDB
StartChecks(i) ==
  /\ wpc[i] = "start"
  /\ IF HeadError(i) # NoRet
       THEN Return(i, HeadError(i))
       ELSE Goto(i, IF variant = "IGDB" THEN "igdb" ELSE "resolve") /\ wret' = wret
  /\ UNCHANGED <<reqVars, upVars, lastCall, handlerVars, wurl, wimg, wid, calls, chanVars, storeVars,
                 ctxDone, now>>

\* mutant of Resolver: ProcessSteam goes on with what findGameSteam returned
Resolver_NoFallback(source, steamOk) == IF source = "Steam" THEN "steam" ELSE "wiki"

\* the strategy that provides the URL: ProcessSteam hands the item to ProcessWiki
\* when findGameSteam fails
Resolver(source, steamOk) == IF source = "Steam" /\ steamOk THEN "steam" ELSE "wiki"

\* ProcessWiki / ProcessSteam up to the URL: findGameWiki, or findGameSteam and,
\* when that fails, findGameWiki
Resolve(i) ==
  /\ wpc[i] = "resolve"
  /\ \E steamOk, wikiOk \in BOOLEAN :
       LET viaSteam == games[i].source = "Steam"
           by == Resolver(games[i].source, steamOk)
           cs == (IF viaSteam
                    THEN IF steamOk THEN <<"findGameSteam">>
                                    ELSE <<"findGameSteam", "steam failed">>
                    ELSE <<>>)
                 \o (IF by = "wiki" THEN <<"findGameWiki">> ELSE <<>>)
       IN /\ Log(i, cs)
          /\ IF by = "steam"
               THEN Goto(i, "check") /\ wurl' = [wurl EXCEPT ![i] = SteamURL(games[i].name)]
                                     /\ wret' = wret
               ELSE IF wikiOk
                 THEN Goto(i, "check") /\ wurl' = [wurl EXCEPT ![i] = WikiURL(games[i].name)]
                                       /\ wret' = wret
                 ELSE Return(i, Fail(i, "resolve")) /\ wurl' = wurl
  /\ UNCHANGED <<reqVars, upVars, lastCall, handlerVars, wimg, wid, chanVars, storeVars, ctxDone, now>>

\* urlCheck(url) of ProcessWiki / ProcessSteam
CheckURL(i) ==
  /\ wpc[i] = "check"
  /\ \E dbErr \in BOOLEAN :
       IF GameExists(wurl[i], dbErr)
         THEN Log(i, <<"GetGameByURL", "exists">>) /\ Return(i, Fail(i, "duplicate"))
         ELSE Log(i, <<"GetGameByURL">>) /\ Goto(i, "parse") /\ wret' = wret
  /\ UNCHANGED <<reqVars, upVars, lastCall, handlerVars, wurl, wimg, wid, chanVars, storeVars, ctxDone,
                 now>>

\* the parser of the site the URL belongs to
Parser(url) == IF url[1] = "steam" THEN "parseGameSteam" ELSE "parseGameWiki"

\* parseGameWiki / parseGameSteam
Parse(i) ==
  /\ wpc[i] = "parse"
  /\ Log(i, <<Parser(wurl[i])>>)
  /\ \/ Goto(i, "image") /\ wret' = wret
     \/ Return(i, Fail(i, "parse"))
  /\ UNCHANGED <<reqVars, upVars, lastCall, handlerVars, wurl, wimg, wid, chanVars, storeVars, ctxDone,
                 now>>

\* getDataFromIGDB: one request resolves the name and returns the fields
GetData(i) ==
  /\ wpc[i] = "igdb"
  /\ Log(i, <<"getDataFromIGDB">>)
  /\ \/ Goto(i, "image") /\ wurl' = [wurl EXCEPT ![i] = IGDBURL(games[i].name)] /\ wret' = wret
     \/ Return(i, Fail(i, "create")) /\ wurl' = wurl
  /\ UNCHANGED <<reqVars, upVars, lastCall, handlerVars, wimg, wid, chanVars, storeVars, ctxDone, now>>

\* SaveImage under its mutex: no overwrite
SaveImage(f, ioErr) == IF f \in blobs \/ ioErr THEN blobs ELSE blobs \cup {f}

\* mutant of ImageFilename: the name is kept when the image was not saved
ImageFilename_Kept(f, err) == f

\* imageFilename, err := c.downloadAndSaveImage(...); on err imageFilename = ""
ImageFilename(f, err) == IF err THEN NoImage ELSE f

\* downloadAndSaveImage and what the pipeline does with its error: logs it and
\* goes on
Image(i) ==
  /\ wpc[i] = "image"
  /\ \/ \* the page has no cover: ErrInvalidURL before any request
        /\ wurl[i][1] # "wiki"
        /\ Log(i, <<"image failed">>)
        /\ wimg' = [wimg EXCEPT ![i] = ImageFilename(NoImage, TRUE)]
        /\ UNCHANGED <<blobs, now>>
     \/ \* the request fails, the status is not 200, the content type is no
        \* image/, or the body cannot be read; the name is not yet generated
        /\ Log(i, <<"download", "image failed">>)
        /\ wimg' = [wimg EXCEPT ![i] = ImageFilename(NoImage, TRUE)]
        /\ UNCHANGED <<blobs, now>>
     \/ \* the clock never runs backwards: time.Now() is now or later
        \E ioErr \in BOOLEAN, t \in now..MaxTime :
          LET f == generateImageFilename(CoverURL(wurl[i]), t)
              err == f \in blobs \/ ioErr
          IN /\ Log(i, IF err THEN <<"download", "SaveImage", "image failed">>
                              ELSE <<"download", "SaveImage">>)
             /\ now' = t
             /\ blobs' = SaveImage(f, ioErr)
             /\ wimg' = [wimg EXCEPT ![i] = ImageFilename(f, err)]
  /\ Goto(i, "create")
  /\ UNCHANGED <<reqVars, upVars, lastCall, handlerVars, wurl, wid, wret, chanVars, catalog, nextID,
                 userGames, ctxDone>>

\* mutant of AfterCreateFailed: the image of the item is left where it is
AfterCreateFailed_NoCleanup(i, reason) ==
  /\ wret' = [wret EXCEPT ![i] = Fail(i, reason)]
  /\ Goto(i, "ret")

\* where service.Create's failure leads: the image is deleted when there is one,
\* then the error is returned
AfterCreateFailed(i, reason) ==
  /\ wret' = [wret EXCEPT ![i] = Fail(i, reason)]
  /\ Goto(i, IF wimg[i] # NoImage THEN "cleanup" ELSE "ret")

\* service.Create, first half: GetGameByURL(g.URL)
CreateCheck(i) ==
  /\ wpc[i] = "create"
  /\ \E dbErr \in BOOLEAN :
       IF GameExists(wurl[i], dbErr)
         THEN Log(i, <<"Create", "exists">>) /\ AfterCreateFailed(i, "exists")
         ELSE Log(i, <<"Create">>) /\ Goto(i, "insert") /\ wret' = wret
  /\ UNCHANGED <<reqVars, upVars, lastCall, handlerVars, wurl, wimg, wid, chanVars, storeVars, ctxDone,
                 now>>

\* the row tx.Create(g) inserts; the pipelines leave Creator unset
NewGame(i) == [id |-> nextID, url |-> wurl[i], image |-> wimg[i], creator |-> 0]

\* service.Create, second half: Begin, tx.Create(g), Commit
Insert(i) ==
  /\ wpc[i] = "insert"
  /\ Log(i, <<"INSERT">>)
  /\ \/ /\ catalog' = catalog \cup {NewGame(i)}
        /\ nextID' = nextID + 1
        /\ wid' = [wid EXCEPT ![i] = nextID]
        /\ Goto(i, "link") /\ wret' = wret
     \/ /\ AfterCreateFailed(i, "create")
        /\ UNCHANGED <<catalog, nextID, wid>>
  /\ UNCHANGED <<reqVars, upVars, lastCall, handlerVars, wurl, wimg, chanVars, userGames, blobs, ctxDone,
                 now>>

\* DeleteImage under its mutex
DeleteImage(f, ioErr) == IF ioErr THEN blobs ELSE blobs \ {f}

\* c.uploads.DeleteImage(imageFilename) after a failed service.Create
Cleanup(i) ==
  /\ wpc[i] = "cleanup"
  /\ \E ioErr \in BOOLEAN :
       /\ blobs' = DeleteImage(wimg[i], ioErr)
       /\ Log(i, IF ioErr THEN <<"DeleteImage", "delete failed">> ELSE <<"DeleteImage">>)
  /\ Goto(i, "ret")
  /\ UNCHANGED <<reqVars, upVars, lastCall, handlerVars, wurl, wimg, wid, wret, chanVars, catalog, nextID,
                 userGames, ctxDone, now>>

\* the row CreateUserGame inserts; user_games.id is the auto-increment key
NewUserGame(i) ==
  [id |-> Cardinality(userGames) + 1, user |-> userID, game |-> wid[i],
   status |-> "planned", priority |-> 0]

\* mutant of AfterLinkFailed: the item whose link failed is returned as a success
AfterLinkFailed_Success(i) == Return(i, Ok(i)) /\ UNCHANGED blobs

\* what createSingleGame / createThroughIGDB do when CreateUserGame fails
AfterLinkFailed(i) == Return(i, Fail(i, "link")) /\ UNCHANGED blobs

\* c.service.CreateUserGame(userGame) and the return of the pipeline
Link(i) ==
  /\ wpc[i] = "link"
  /\ Log(i, <<"CreateUserGame">>)
  /\ \/ /\ userGames' = userGames \cup {NewUserGame(i)}
        /\ Return(i, Ok(i))
        /\ UNCHANGED blobs
     \/ /\ AfterLinkFailed(i)
        /\ UNCHANGED userGames
  /\ UNCHANGED <<reqVars, upVars, lastCall, handlerVars, wurl, wimg, wid, chanVars, catalog, nextID,
                 ctxDone, now>>

\* mutant of Capacity: a channel holds as many outcomes as there are permits
Capacity_Permits == maxWorkers

\* make(chan error, len(request.Games)), make(chan *models.Game, len(request.Games))
Capacity == N

\* errChan <- err, or resultsChan <- game; both channels have capacity len(games)
Send(i) ==
  /\ wpc[i] = "ret"
  /\ IF wret[i].kind = "err"
       THEN /\ Len(errChan) < Capacity
            /\ errChan' = Append(errChan, wret[i])
            /\ UNCHANGED resultsChan
       ELSE /\ Len(resultsChan) < Capacity
            /\ resultsChan' = Append(resultsChan, wret[i])
            /\ UNCHANGED errChan
  /\ Goto(i, "exit")
  /\ UNCHANGED <<reqVars, upVars, lastCall, handlerVars, wurl, wimg, wid, wret, calls, errors, createdGames,
                 storeVars, ctxDone, now>>

\* mutant of Release: the worker ends without giving its permit back
Release_KeepPermit(i) ==
  /\ wpc[i] = "exit"
  /\ sem' = sem /\ wg' = wg - 1
  /\ Goto(i, "done")
  /\ UNCHANGED <<reqVars, upVars, lastCall, hpc, status, tokenReqs, next, closed, wurl, wimg, wid, wret,
                 calls, chanVars, storeVars, ctxDone, now>>

\* the deferred func: <-sem; wg.Done()
Release(i) ==
  /\ wpc[i] = "exit"
  /\ sem' = sem - 1 /\ wg' = wg - 1
  /\ Goto(i, "done")
  /\ UNCHANGED <<reqVars, upVars, lastCall, hpc, status, tokenReqs, next, closed, wurl, wimg, wid, wret,
                 calls, chanVars, storeVars, ctxDone, now>>

Worker(i) ==
  \/ StartChecks(i) \/ Resolve(i) \/ CheckURL(i) \/ Parse(i) \/ GetData(i) \/ Image(i)
  \/ CreateCheck(i) \/ Insert(i) \/ Cleanup(i) \/ Link(i) \/ Send(i) \/ Release(i)

Next ==
  \/ Validate \/ Login \/ Dispatch \/ DispatchDone \/ Closer \/ CollectErr \/ CollectRes
  \/ Respond \/ Deadline
  \/ \E i \in Workers : Worker(i)

Spec == Init /\ [][Next]_vars

\* ------------------------------------------------------- more items than permits

\* a request of maxWorkers + Extra items of an authenticated caller
InitSem ==
  /\ variant \in {"DB", "IGDB"}
  /\ userID = 1
  /\ games = [i \in 1..(maxWorkers + Extra) |->
                [name |-> "Portal", source |-> IF variant = "DB" THEN "Wiki" ELSE ""]]
  /\ InitHandler /\ InitWorkers /\ InitStores
  /\ files = <<>> /\ InitCallers /\ lastCall = NoRequest

\* the body of a worker goroutine as one step: the pipeline from its call to its
\* return (past its head every call is taken to succeed, what it does to the
\* stores is left out), the send, the deferred release
Run(i) ==
  /\ wpc[i] = "start"
  /\ LET ret == IF HeadError(i) # NoRet THEN HeadError(i) ELSE Ok(i) IN
       IF ret.kind = "err"
         THEN /\ Len(errChan) < Capacity
              /\ errChan' = Append(errChan, ret)
              /\ UNCHANGED resultsChan
         ELSE /\ Len(resultsChan) < Capacity
              /\ resultsChan' = Append(resultsChan, ret)
              /\ UNCHANGED errChan
  /\ sem' = sem - 1 /\ wg' = wg - 1
  /\ Goto(i, "done")
  /\ UNCHANGED <<reqVars, upVars, lastCall, hpc, status, tokenReqs, next, closed, wurl, wimg, wid, wret,
                 calls, errors, createdGames, storeVars, ctxDone, now>>

NextSem ==
  \/ Validate \/ Login \/ Dispatch \/ DispatchDone \/ Closer \/ CollectErr \/ CollectRes
  \/ Respond \/ Deadline
  \/ \E i \in Workers : Run(i)

SpecSem == InitSem /\ [][NextSem]_vars

\* the items of such a request
SemItems == maxWorkers + Extra

\* the Go scheduler runs every goroutine that can take a step: the handler, the
\* closer, and every worker, whose pipeline returns; whether the deadline fires
\* is left open
FairSem ==
  /\ WF_vars(Validate) /\ WF_vars(Login) /\ WF_vars(Dispatch) /\ WF_vars(DispatchDone)
  /\ WF_vars(Closer) /\ WF_vars(CollectErr) /\ WF_vars(CollectRes) /\ WF_vars(Respond)
  /\ \A i \in 1..SemItems : WF_vars(Run(i))

SpecSemFair == SpecSem /\ FairSem

\* ------------------------------------------------ the blob store (uploads.go)

FileNames == {"a.jpg", "b.jpg"}

\* filepath.Join(u.folderPath, filename) and the temporary file next to it
PathOf(f) == <<f, "">>

TempOf(f) == <<f, ".tmp">>

\* image data: no bytes, the bytes a file had at the start, the bytes of a caller
NoBytes == <<>>

OldBytes == <<0>>

BytesOf(c) == <<c>>

Exists(p) == p \in DOMAIN files

\* os.Create + Write, or os.Rename: the path holds these bytes afterwards
WriteFile(fs, p, b) == [q \in DOMAIN fs \cup {p} |-> IF q = p THEN b ELSE fs[q]]

\* os.Remove
RemoveFile(fs, p) == [q \in DOMAIN fs \ {p} |-> fs[q]]

\* the calls a caller can make; existed: the file of that name was there when
\* the call was made
SaveCalls(c) ==
  [op : {"SaveImage"}, image : {NoBytes, BytesOf(c)}, name : FileNames, newName : {""},
   existed : BOOLEAN]

DeleteCalls ==
  [op : {"DeleteImage"}, image : {NoBytes}, name : FileNames, newName : {""},
   existed : BOOLEAN]

ReplaceCalls(c) ==
  [op : {"ReplaceImage"}, image : {NoBytes, BytesOf(c)}, name : FileNames,
   newName : FileNames, existed : BOOLEAN]

\* the checks of the arguments at the head of the three functions
ArgError(call) ==
  IF call.op # "DeleteImage" /\ Len(call.image) = 0 THEN "ErrInvalidImage"
  ELSE IF call.name = "" \/ (call.op = "ReplaceImage" /\ call.newName = "")
    THEN "ErrInvalidFileName"
    ELSE "none"

\* ReplaceImage: _, err := os.Stat(oldPath); oldFilename != newFilename &&
\* os.IsNotExist(err)
OldMissing(oldName, newName) == oldName # newName /\ ~Exists(PathOf(oldName))

Finish(c, r) == upc' = [upc EXCEPT ![c] = "done"] /\ ures' = [ures EXCEPT ![c] = r]

\* a goroutine calls SaveImage, DeleteImage or ReplaceImage: the checks of the
\* arguments and, for ReplaceImage, the os.Stat made before the lock is taken
Call(c) ==
  /\ upc[c] = "idle"
  /\ \E call \in SaveCalls(c) \cup DeleteCalls \cup ReplaceCalls(c) :
       /\ call.existed = Exists(PathOf(call.name))
       /\ uop' = [uop EXCEPT ![c] = call]
       /\ IF ArgError(call) # "none"
            THEN Finish(c, ArgError(call))
            ELSE IF call.op = "ReplaceImage" /\ OldMissing(call.name, call.newName)
              THEN Finish(c, "ErrFileNotExists")
              ELSE upc' = [upc EXCEPT ![c] = "lock"] /\ ures' = ures
  /\ UNCHANGED <<ingestVars, lastCall, files, mu>>

\* mutant of MutexFree: the lock excludes nobody
MutexFree_Always == TRUE

\* u.mu.Lock() returns
MutexFree == mu = 0

Lock(c) ==
  /\ upc[c] = "lock"
  /\ MutexFree
  /\ mu' = c
  /\ upc' = [upc EXCEPT ![c] = "stat"]
  /\ UNCHANGED <<ingestVars, lastCall, files, uop, ures>>

\* mutant of FileMissing: DeleteImage does not look before it removes
FileMissing_Unchecked(p) == FALSE

\* DeleteImage: _, err := os.Stat(fullPath); os.IsNotExist(err)
FileMissing(p) == ~Exists(p)

\* SaveImage under the lock: os.Stat(fullPath) finds the file, ErrFileExists
\* DeleteImage under the lock: os.Stat(fullPath) finds none, ErrFileNotExists
\* ReplaceImage makes no check under the lock
Stat(c) ==
  /\ upc[c] = "stat"
  /\ LET p == PathOf(uop[c].name) IN
       CASE uop[c].op = "SaveImage" ->
              IF Exists(p)
                THEN upc' = [upc EXCEPT ![c] = "unlock"]
                     /\ ures' = [ures EXCEPT ![c] = "ErrFileExists"]
                ELSE upc' = [upc EXCEPT ![c] = "write"] /\ ures' = ures
         [] uop[c].op = "DeleteImage" ->
              IF FileMissing(p)
                THEN upc' = [upc EXCEPT ![c] = "unlock"]
                     /\ ures' = [ures EXCEPT ![c] = "ErrFileNotExists"]
                ELSE upc' = [upc EXCEPT ![c] = "remove"] /\ ures' = ures
         [] OTHER -> upc' = [upc EXCEPT ![c] = "temp"] /\ ures' = ures
  /\ UNCHANGED <<ingestVars, lastCall, files, mu, uop>>

\* SaveImage: os.Create(fullPath), file.Write(image)
Write(c) ==
  /\ upc[c] = "write"
  /\ files' = WriteFile(files, PathOf(uop[c].name), uop[c].image)
  /\ upc' = [upc EXCEPT ![c] = "unlock"]
  /\ ures' = [ures EXCEPT ![c] = "ok"]
  /\ UNCHANGED <<ingestVars, lastCall, mu, uop>>

\* DeleteImage: return os.Remove(fullPath)
Remove(c) ==
  /\ upc[c] = "remove"
  /\ files' = RemoveFile(files, PathOf(uop[c].name))
  /\ upc' = [upc EXCEPT ![c] = "unlock"]
  /\ ures' = [ures EXCEPT ![c] = IF Exists(PathOf(uop[c].name)) THEN "ok" ELSE "PathError"]
  /\ UNCHANGED <<ingestVars, lastCall, mu, uop>>

\* ReplaceImage: os.Create(tempPath), file.Write(image), file.Close()
Temp(c) ==
  /\ upc[c] = "temp"
  /\ files' = WriteFile(files, TempOf(uop[c].newName), uop[c].image)
  /\ upc' = [upc EXCEPT ![c] = "rename"]
  /\ UNCHANGED <<ingestVars, lastCall, mu, uop, ures>>

\* ReplaceImage: os.Rename(tempPath, newPath); when it fails, os.Remove(tempPath)
\* and the error is returned
Rename(c) ==
  /\ upc[c] = "rename"
  /\ LET tmp == TempOf(uop[c].newName) IN
       IF Exists(tmp)
         THEN /\ files' = WriteFile(RemoveFile(files, tmp), PathOf(uop[c].newName),
                                    files[tmp])
              /\ upc' = [upc EXCEPT ![c] = "removeOld"]
              /\ ures' = ures
         ELSE /\ files' = files
              /\ upc' = [upc EXCEPT ![c] = "unlock"]
              /\ ures' = [ures EXCEPT ![c] = "PathError"]
  /\ UNCHANGED <<ingestVars, lastCall, mu, uop>>

\* ReplaceImage: os.Remove(oldPath) when the names differ; a file that is no
\* longer there is not an error
RemoveOld(c) ==
  /\ upc[c] = "removeOld"
  /\ files' = IF uop[c].name # uop[c].newName
                 THEN RemoveFile(files, PathOf(uop[c].name))
                 ELSE files
  /\ upc' = [upc EXCEPT ![c] = "unlock"]
  /\ ures' = [ures EXCEPT ![c] = "ok"]
  /\ UNCHANGED <<ingestVars, lastCall, mu, uop>>

\* the deferred u.mu.Unlock(), and the return
Unlock(c) ==
  /\ upc[c] = "unlock"
  /\ mu' = 0
  /\ upc' = [upc EXCEPT ![c] = "done"]
  /\ UNCHANGED <<ingestVars, lastCall, files, uop, ures>>

\* the folder at the start: each file is there, with its old bytes, or is not
InitUploads ==
  /\ variant = "DB" /\ userID = 1 /\ games = <<>>
  /\ InitHandler /\ InitWorkers /\ InitStores
  /\ \E F \in SUBSET FileNames : files = [p \in {PathOf(f) : f \in F} |-> OldBytes]
  /\ InitCallers /\ lastCall = NoRequest

NextUploads ==
  \E c \in Callers :
    \/ Call(c) \/ Lock(c) \/ Stat(c) \/ Write(c) \/ Remove(c) \/ Temp(c) \/ Rename(c)
    \/ RemoveOld(c) \/ Unlock(c)

SpecUploads == InitUploads /\ [][NextUploads]_vars

\* ------------------------------------- the links of users to games (user_games)

LinkUsers == {NoUser, 1, 2}

\* the form value "priority" of Create and Update
FormPriorities == {"", "-1", "5", "11"}

\* the field priority of the JSON body of UpdatePriority
JSONPriorities == {0 - 1, 5, 11}

\* the status a request submits; "" when the field is absent
LinkStatuses == {"", "finished"}

\* strconv.Atoi on the form values above
Atoi(str) ==
  CASE str = "-1" -> [err |-> FALSE, n |-> 0 - 1]
    [] str = "5" -> [err |-> FALSE, n |-> 5]
    [] str = "11" -> [err |-> FALSE, n |-> 11]
    [] OTHER -> [err |-> TRUE, n |-> 0]

\* request.Priority, err = strconv.Atoi(...); if err != nil { request.Priority = 0 }
FormPriority(str) == IF Atoi(str).err THEN 0 ELSE Atoi(str).n

\* if request.Priority > 10: the request is refused
PriorityRefused(n) == n > 10

\* DB.Where("user_id = ? AND game_id = ?").First(&existing)
LinksOf(u, g) == {r \in userGames : r.user = u /\ r.game = g}

FirstLink(u, g) == CHOOSE r \in LinksOf(u, g) : \A q \in LinksOf(u, g) : r.id <= q.id

\* the row DB.Create(ug) stores: a new key, the default of the column status
LinkRow(ug) ==
  [id |-> Cardinality(userGames) + 1, user |-> ug.user, game |-> ug.game,
   status |-> IF ug.status = "" THEN "planned" ELSE ug.status,
   priority |-> ug.priority]

\* mutant of CreateUserGame: the row is inserted without looking for the pair
CreateUserGame_Blind(ug) == userGames \cup {LinkRow(ug)}

\* service.CreateUserGame: user_games after the call
CreateUserGame(ug) ==
  IF LinksOf(ug.user, ug.game) = {} THEN userGames \cup {LinkRow(ug)} ELSE userGames

\* service.UpdateUserGame: user_games after the call
UpdateUserGame(ug) ==
  IF LinksOf(ug.user, ug.game) = {}
    THEN CreateUserGame(ug)
    ELSE LET old == FirstLink(ug.user, ug.game) IN
         (userGames \ {old})
           \cup {[old EXCEPT !.priority = ug.priority, !.status = ug.status]}

GameRow(g) == CHOOSE r \in catalog : r.id = g

HasGame(g) == \E r \in catalog : r.id = g

UserGame(u, g, p, st) == [user |-> u, game |-> g, priority |-> p, status |-> st]

\* the store call of a request that fails; "" when every call succeeds
CreateFails == {"", "SaveImage", "Create", "CreateUserGame"}
UpdateFails == {"", "ReplaceImage", "Update", "UpdateUserGame"}
DeleteFails == {"", "DeleteImage", "Delete", "DeleteUserGame"}

\* the image of an Update: none, a file of the multipart form, the field
\* "image" of the JSON body
UpdateImages == {"", "file", "json"}

\* the name header.Filename of an uploaded file
UploadName == <<"cover.jpg">>

\* uuid.New().String() + filepath.Ext(header.Filename): a name no other game has
UUIDName(g) == <<g, <<"uuid">>>>

\* gameData["image"].(string): a name the client chose
JSONName == <<"client.jpg">>

\* uploads.ReplaceImage: the call returns an error
ReplaceImageFails(old, new, ioErr) ==
  ioErr \/ old = NoImage \/ (old # new /\ old \notin blobs)

\* uploads.ReplaceImage: the folder after a call that succeeds
ReplaceImage(old, new) == (blobs \ {old}) \cup {new}

\* tx.Model(&models.Game{}).Where("id = ?", g.ID).Updates(g): a zero field is
\* left as it is
UpdateRow(row, image) == IF image = NoImage THEN row ELSE [row EXCEPT !.image = image]

\* mutant of MayDelete: every authenticated user deletes the game
MayDelete_Anyone(u, isAdmin, creator) == TRUE

\* if userID == game.Creator || isAdmin
MayDelete(u, isAdmin, creator) == u = creator \/ isAdmin

\* service.DeleteUserGame: Where("user_id = ? AND game_id = ?").Delete
DeleteUserGame(u, g) == userGames \ LinksOf(u, g)

\* service.Delete: tx.Delete(&models.Game{}, id)
DeleteGame(g) == {r \in catalog : r.id # g}

\* the request is recorded and numbered; err is the error a service called
\* directly returned
Answer(o, u, g, p, st, e) ==
  /\ lastCall.seq < MaxRequests
  /\ lastCall' = [op |-> o, user |-> u, game |-> g, priority |-> p, status |-> st,
                  err |-> e, seq |-> lastCall.seq + 1]

Request(o, u, g, p, st) == Answer(o, u, g, p, st, FALSE)

linkFrame ==
  <<reqVars, upVars, hpc, tokenReqs, next, sem, wg, closed, workerVars, chanVars,
    ctxDone, now>>

Refuse(code) == status' = code /\ UNCHANGED <<catalog, nextID, userGames, blobs>>

\* GameController.Create: one game by hand, its image and the link of its creator
Create(u, str, fail) ==
  /\ nextID <= MaxRows
  /\ Request("Create", u, nextID, FormPriority(str), "")
  /\ IF Unauthorized(u) THEN Refuse(StatusUnauthorized)
     ELSE IF PriorityRefused(FormPriority(str)) THEN Refuse(StatusBadRequest)
     ELSE IF fail = "SaveImage" THEN Refuse(StatusInternalServerError)
     ELSE IF fail = "Create"
       THEN /\ blobs' = SaveImage(UUIDName(nextID), FALSE) \ {UUIDName(nextID)}
            /\ status' = StatusInternalServerError
            /\ UNCHANGED <<catalog, nextID, userGames>>
     ELSE /\ blobs' = SaveImage(UUIDName(nextID), FALSE)
          /\ catalog' = catalog \cup {[id |-> nextID, url |-> <<"form", nextID>>,
                                         image |-> UUIDName(nextID), creator |-> u]}
          /\ nextID' = nextID + 1
          /\ IF fail = "CreateUserGame"
               THEN status' = StatusInternalServerError /\ UNCHANGED userGames
               ELSE /\ userGames' = CreateUserGame(UserGame(u, nextID, FormPriority(str), ""))
                    /\ status' = StatusOK
  /\ UNCHANGED linkFrame

\* the name Update gives the game: of the file it stored, of the JSON body, none
UpdateName(img) ==
  CASE img = "file" -> generateImageFilename(UploadName, now)
    [] img = "json" -> JSONName
    [] OTHER -> NoImage

\* GameController.Update: the image, the fields of the game and the link of the
\* user
Update(u, isAdmin, g, str, st, img, fail) ==
  /\ Request("Update", u, g, FormPriority(str), st)
  /\ IF Unauthorized(u) THEN Refuse(StatusUnauthorized)
     ELSE IF ~HasGame(g) THEN Refuse(StatusInternalServerError)
     ELSE IF ~isAdmin /\ GameRow(g).creator # u THEN Refuse(StatusUnauthorized)
     ELSE IF img = "file"
             /\ ReplaceImageFails(GameRow(g).image, UpdateName(img), fail = "ReplaceImage")
       THEN Refuse(StatusInternalServerError)
     ELSE /\ blobs' = IF img = "file" THEN ReplaceImage(GameRow(g).image, UpdateName(img))
                      ELSE blobs
          /\ nextID' = nextID
          /\ IF PriorityRefused(FormPriority(str))
               THEN status' = StatusBadRequest /\ UNCHANGED <<catalog, userGames>>
             ELSE IF fail = "Update"
               THEN status' = StatusInternalServerError /\ UNCHANGED <<catalog, userGames>>
             ELSE /\ catalog' = (catalog \ {GameRow(g)})
                                  \cup {UpdateRow(GameRow(g), UpdateName(img))}
                  /\ IF fail = "UpdateUserGame"
                       THEN status' = StatusInternalServerError /\ UNCHANGED userGames
                       ELSE /\ userGames' = UpdateUserGame(UserGame(u, g, FormPriority(str), st))
                            /\ status' = StatusOK
  /\ UNCHANGED linkFrame

\* GameController.UpdatePriority
UpdatePriority(u, g, p) ==
  /\ Request("UpdatePriority", u, g, p, "")
  /\ IF Unauthorized(u) THEN Refuse(StatusUnauthorized)
     ELSE IF ~HasGame(g) \/ LinksOf(u, g) = {} THEN Refuse(StatusInternalServerError)
     ELSE /\ userGames' = UpdateUserGame(UserGame(u, g, p, FirstLink(u, g).status))
          /\ status' = StatusOK
          /\ UNCHANGED <<catalog, nextID, blobs>>
  /\ UNCHANGED linkFrame

\* GameController.UpdateStatus
UpdateStatus(u, g, st) ==
  /\ Request("UpdateStatus", u, g, 0, st)
  /\ IF Unauthorized(u) THEN Refuse(StatusUnauthorized)
     ELSE IF ~HasGame(g) THEN Refuse(StatusInternalServerError)
     ELSE IF u # GameRow(g).creator
       THEN /\ userGames' = UpdateUserGame(UserGame(u, g, 0, st))
            /\ status' = StatusOK
            /\ UNCHANGED <<catalog, nextID, blobs>>
     ELSE IF LinksOf(u, g) = {} THEN Refuse(StatusInternalServerError)
     ELSE /\ userGames' = UpdateUserGame(UserGame(u, g, FirstLink(u, g).priority, st))
          /\ status' = StatusOK
          /\ UNCHANGED <<catalog, nextID, blobs>>
  /\ UNCHANGED linkFrame

\* GameController.Delete: the image, the game, and the link of the caller
Delete(u, isAdmin, g, fail) ==
  /\ Request("Delete", u, g, 0, "")
  /\ IF Unauthorized(u) THEN Refuse(StatusUnauthorized)
     ELSE IF ~HasGame(g) THEN Refuse(StatusNotFound)
     ELSE IF ~MayDelete(u, isAdmin, GameRow(g).creator)
       THEN /\ UNCHANGED <<catalog, nextID, blobs>>
            /\ IF fail = "DeleteUserGame"
                 THEN status' = StatusInternalServerError /\ UNCHANGED userGames
                 ELSE userGames' = DeleteUserGame(u, g) /\ status' = StatusOK
     ELSE /\ blobs' = DeleteImage(GameRow(g).image, fail = "DeleteImage")
          /\ nextID' = nextID
          /\ IF fail = "Delete"
               THEN status' = StatusInternalServerError /\ UNCHANGED <<catalog, userGames>>
               ELSE /\ catalog' = DeleteGame(g)
                    /\ IF fail = "DeleteUserGame"
                         THEN status' = StatusInternalServerError /\ UNCHANGED userGames
                         ELSE userGames' = DeleteUserGame(u, g) /\ status' = StatusOK
  /\ UNCHANGED linkFrame

\* a pipeline of the bulk ingestion that succeeds: the game, and the link with
\* status planned and priority 0
Ingest(u) ==
  /\ nextID <= MaxRows /\ ~Unauthorized(u)
  /\ Request("Ingest", u, nextID, 0, "planned")
  /\ catalog' = catalog \cup {[id |-> nextID, url |-> <<"wiki", nextID>>,
                                image |-> NoImage, creator |-> 0]}
  /\ nextID' = nextID + 1
  /\ userGames' = CreateUserGame(UserGame(u, nextID, 0, "planned"))
  /\ status' = StatusCreated
  /\ UNCHANGED blobs
  /\ UNCHANGED linkFrame

\* service.CreateUserGame called with any link
CallCreateUserGame(u, g, p, st) ==
  /\ Request("CreateUserGame", u, g, p, st)
  /\ userGames' = CreateUserGame(UserGame(u, g, p, st))
  /\ UNCHANGED <<status, catalog, nextID, blobs>>
  /\ UNCHANGED linkFrame

\* service.UpdateUserGame called with any link; dbErr: a query or a write of the
\* call fails, the only way the call returns an error
CallUpdateUserGame(u, g, p, st, dbErr) ==
  /\ Answer("UpdateUserGame", u, g, p, st, dbErr)
  /\ userGames' = IF dbErr THEN userGames ELSE UpdateUserGame(UserGame(u, g, p, st))
  /\ UNCHANGED <<status, catalog, nextID, blobs>>
  /\ UNCHANGED linkFrame

InitLinks ==
  /\ variant = "DB" /\ userID = 1 /\ games = <<>>
  /\ InitHandler /\ InitWorkers /\ InitStores
  /\ files = <<>> /\ InitCallers /\ lastCall = NoRequest

\* the server handles one request more
MoreRequests == lastCall.seq < MaxRequests

NextLinks ==
  \/ MoreRequests /\ \E u \in LinkUsers, str \in FormPriorities, fail \in CreateFails :
       Create(u, str, fail)
  \/ MoreRequests /\ \E u \in LinkUsers, isAdmin \in BOOLEAN, g \in 1..MaxRows,
          str \in FormPriorities, st \in LinkStatuses, img \in UpdateImages,
          fail \in UpdateFails :
       Update(u, isAdmin, g, str, st, img, fail)
  \/ MoreRequests /\ \E u \in LinkUsers, g \in 1..MaxRows, p \in JSONPriorities :
       UpdatePriority(u, g, p)
  \/ MoreRequests /\ \E u \in LinkUsers, g \in 1..MaxRows, st \in LinkStatuses :
       UpdateStatus(u, g, st)
  \/ MoreRequests /\ \E u \in LinkUsers, isAdmin \in BOOLEAN, g \in 1..MaxRows,
          fail \in DeleteFails :
       Delete(u, isAdmin, g, fail)
  \/ MoreRequests /\ \E u \in LinkUsers : Ingest(u)
  \/ MoreRequests /\ \E u \in LinkUsers \ {NoUser}, g \in 1..MaxRows, p \in JSONPriorities,
          st \in LinkStatuses :
       CallCreateUserGame(u, g, p, st)
  \/ MoreRequests /\ \E u \in LinkUsers \ {NoUser}, g \in 1..MaxRows, p \in JSONPriorities,
          st \in LinkStatuses, dbErr \in BOOLEAN :
       CallUpdateUserGame(u, g, p, st, dbErr)

SpecLinks == InitLinks /\ [][NextLinks]_vars

\* ----------------------------------------------------------------- claims

Count(seq, e) == Cardinality({k \in 1..Len(seq) : seq[k] = e})

Returned(kind) == {i \in Workers : wret[i].kind = kind}

TimeoutReasons == {"ctx.Err", "ErrUnknown"}

\* C1: when the response of an accepted batch is written every item has returned
\* exactly one outcome, the errors collected are exactly the errors returned and
\* the games collected exactly the games returned, so that
\* len(success) + len(errors) = N.
C1_ExactlyOneOutcome ==
  hpc = "done" =>
    /\ Len(errors) + Len(createdGames) = N
    /\ \A i \in Workers : wpc[i] = "done" /\ wret[i] # NoRet
    /\ Len(errors) = Cardinality(Returned("err"))
    /\ Len(createdGames) = Cardinality(Returned("ok"))
    /\ \A i \in Returned("err") :
         /\ Count(errors, wret[i]) = Cardinality({j \in Workers : wret[j] = wret[i]})
         /\ Count(createdGames, wret[i]) = 0
    /\ \A i \in Returned("ok") :
         /\ Count(createdGames, wret[i]) = 1
         /\ Count(errors, wret[i]) = 0
    /\ errChan = <<>> /\ resultsChan = <<>>

\* C1 witness: a batch of two answered after the deadline fired, one item in each list
C1_Witness ==
  hpc = "done" /\ N = 2 /\ ctxDone /\ Len(errors) = 1 /\ Len(createdGames) = 1

InFlight == {i \in Workers : wpc[i] \notin {"idle", "done"}}

\* C2: at most maxWorkers (10) pipelines are started and not yet finished.
C2_AtMostTenInFlight == Cardinality(InFlight) <= maxWorkers

\* C2 witness: ten pipelines in flight and an item left that waits for a permit
C2_Witness == Cardinality(InFlight) = maxWorkers /\ hpc = "dispatch" /\ next <= N

Called(i, c) == \E k \in 1..Len(calls[i]) : calls[i][k] = c

\* C3 (as claimed): an item that fails because CreateUserGame failed after its
\* image was saved has called DeleteImage for that image.
C3_Original ==
  \A i \in Workers :
    (wret[i].kind = "err" /\ Called(i, "CreateUserGame") /\ wimg[i] # NoImage)
      => Called(i, "DeleteImage")

\* C4 (as claimed): no two rows of the catalog have the same URL.
C4_Original == \A g, h \in catalog : g.url = h.url => g.id = h.id

\* C5 (as claimed): once the deadline has fired, a pipeline that is still running
\* inserts no game and returns nothing but the timeout failure.
C5_Original ==
  [][\A i \in Workers :
       (ctxDone /\ InPipeline(wpc[i])) =>
         /\ wid'[i] = wid[i]
         /\ (wpc'[i] = "ret" =>
               wret'[i].kind = "err" /\ wret'[i].reason \in TimeoutReasons)]_vars

NoSideEffects ==
  /\ catalog = {} /\ userGames = {} /\ blobs = {}
  /\ \A i \in Workers : calls[i] = <<>>

BadSourceItems == {i \in Workers : games[i].source \notin {"Wiki", "Steam"}}

\* C7 (as claimed): POST /games/multi with an item of an unknown source is
\* answered 400.
C7_Original ==
  (variant = "DB" /\ BadSourceItems # {} /\ hpc \in {"done", "rejected"})
    => status = StatusBadRequest

\* C7 (amended): in an accepted batch of POST /games/multi an item of an unknown
\* source fails alone, at the head of its pipeline and before any external call,
\* with ErrInvalidSource (or with the timeout or unauthorized error checked
\* before it); the answer is 500 when no item succeeded and 207 otherwise.
C7_Amended ==
  (variant = "DB" /\ N <= MaxBatch) =>
    /\ \A i \in BadSourceItems :
         /\ calls[i] = <<>>
         /\ wret[i] # NoRet =>
              /\ wret[i].kind = "err"
              /\ wret[i].reason \in {"ErrInvalidSource", "ErrUnauthorized"} \cup TimeoutReasons
    /\ (hpc = "done" /\ BadSourceItems # {}) =>
         status = IF createdGames = <<>> THEN StatusInternalServerError
                                          ELSE StatusMultiStatus

\* C7 witness: a batch with an item refused for its source is answered 207
C7_Witness ==
  /\ variant = "DB" /\ hpc = "done" /\ status = StatusMultiStatus
  /\ \E k \in 1..Len(errors) : errors[k].reason = "ErrInvalidSource"

\* C8: a batch of no item or of more than 100 items is answered 400 and nothing
\* else happens: no pipeline, no permit, no token request, no store call.
C8_BadBatchRejected ==
  (N = 0 \/ N > MaxBatch) =>
    /\ hpc \in {"recv", "rejected"}
    /\ hpc = "rejected" => status = StatusBadRequest
    /\ sem = 0 /\ wg = 0 /\ tokenReqs = 0
    /\ \A i \in Workers : wpc[i] = "idle"
    /\ NoSideEffects

\* C8 witness: the catalog endpoint has answered 400 to a batch of 101 items
C8_Witness ==
  N > MaxBatch /\ variant = "IGDB" /\ hpc = "rejected" /\ status = StatusBadRequest

\* C9: the status of an accepted batch is 201 when errors is empty, 500 when
\* success is empty and errors is not, 207 when neither is empty.
C9_StatusFromLists ==
  hpc = "done" =>
    /\ errors = <<>> => status = StatusCreated
    /\ (errors # <<>> /\ createdGames = <<>>) => status = StatusInternalServerError
    /\ (errors # <<>> /\ createdGames # <<>>) => status = StatusMultiStatus

\* C9 witness: a batch answered 207
C9_Witness ==
  hpc = "done" /\ status = StatusMultiStatus /\ errors # <<>> /\ createdGames # <<>>

\* C10 (as claimed): for every source kind a pipeline parses no page, downloads no
\* cover and saves no image before it has checked that its URL is not in the
\* catalog.
C10_Original ==
  \A i \in Workers : \A k \in 1..Len(calls[i]) :
    calls[i][k] \in {"parseGameWiki", "parseGameSteam", "download", "SaveImage"}
      => \E j \in 1..(k - 1) : calls[i][j] \in {"GetGameByURL", "Create"}

\* the reasons whose message says that the game already exists
DuplicateReasons == {"duplicate", "exists"}

\* C11 (as claimed): an item whose existence check (urlCheck or the GetGameByURL
\* of service.Create) reported its URL as present never executes the INSERT and
\* is reported in errors with a reason that says duplicate.
C11_Original ==
  \A i \in Workers :
    Called(i, "exists") =>
      /\ ~Called(i, "INSERT")
      /\ wret[i] # NoRet => wret[i].kind = "err" /\ wret[i].reason \in DuplicateReasons
      /\ hpc = "done" => Count(errors, wret[i]) >= 1

\* C12: an item whose image could not be fetched or saved goes on to
\* service.Create with an empty image name: it deletes no image, the row it
\* inserts has an empty image, the game it returns has an empty image, and the
\* only failures it can report are those of service.Create and CreateUserGame.
C12_ImageFailureSwallowed ==
  \A i \in Workers :
    Called(i, "image failed") =>
      /\ wimg[i] = NoImage
      /\ wpc[i] \in {"create", "insert", "link", "ret", "exit", "done"}
      /\ ~Called(i, "DeleteImage")
      /\ \A g \in catalog : g.id = wid[i] => g.image = NoImage
      /\ wret[i] # NoRet =>
           \/ wret[i].kind = "ok" /\ wret[i].image = NoImage
           \/ /\ wret[i].kind = "err"
              /\ Called(i, "Create")
              /\ wret[i].reason \in {"create", "exists", "link", "ErrCreateGame"}

\* C12 witness: an item whose SaveImage failed is answered in success, its row
\* without image
C12_Witness ==
  \E i \in Workers :
    /\ Called(i, "SaveImage") /\ Called(i, "image failed")
    /\ hpc = "done" /\ wret[i].kind = "ok"
    /\ \E g \in catalog : g.id = wid[i] /\ g.image = NoImage

\* the step in which pipeline j fixes an error as its result
FailsNow(j) == wret[j] = NoRet /\ wret'[j] # NoRet /\ wret'[j].kind = "err"

C14_Original ==
  \A k \in 1..Len(errors) :
    \E i \in Workers : errors[k] = wret[i] /\ errors[k].name = games[i].name

\* the calls of the Steam strategy and of the Wiki strategy
SteamCalls == {"findGameSteam", "steam failed", "parseGameSteam"}

WikiCalls == {"findGameWiki", "parseGameWiki"}

\* the calls a pipeline made after its first n
After(i, n) == SubSeq(calls[i], n + 1, Len(calls[i]))

\* what a pipeline of source Wiki can be observed to do: findGameWiki first, no
\* call of the Steam strategy, the Wiki URL, the existence check before the parse
WikiRun(name, cs, url, ret) ==
  /\ cs # <<>> => cs[1] = "findGameWiki"
  /\ \A k \in 1..Len(cs) : cs[k] \notin SteamCalls
  /\ url \in {NoURL, WikiURL(name)}
  /\ \A k \in 1..Len(cs) :
       cs[k] = "parseGameWiki" => \E j \in 1..(k - 1) : cs[j] = "GetGameByURL"
  /\ ret # NoRet =>
       \/ ret.kind = "ok" /\ ret.url = WikiURL(name)
       \/ ret.kind = "err" /\ ret.reason \in {"resolve", "duplicate", "parse", "create",
                                               "exists", "link"}

\* C15: a Steam item whose findGameSteam failed runs the Wiki pipeline from its
\* start and is observed exactly as an item of source Wiki is, the failure of
\* Steam appearing in no error; a Steam item whose findGameSteam succeeded makes
\* no call of the Wiki strategy and keeps its Steam URL, its parse failing or not.
C15_SteamFallback ==
  \A i \in Workers :
    /\ (games[i].source = "Wiki" /\ calls[i] # <<>>) =>
         WikiRun(games[i].name, calls[i], wurl[i], wret[i])
    /\ (games[i].source = "Steam" /\ Called(i, "steam failed")) =>
         /\ SubSeq(calls[i], 1, 2) = <<"findGameSteam", "steam failed">>
         /\ Len(calls[i]) > 2
         /\ WikiRun(games[i].name, After(i, 2), wurl[i], wret[i])
    /\ (games[i].source = "Steam" /\ calls[i] # <<>> /\ ~Called(i, "steam failed")) =>
         /\ calls[i][1] = "findGameSteam"
         /\ wurl[i] = SteamURL(games[i].name)
         /\ \A k \in 1..Len(calls[i]) : calls[i][k] \notin WikiCalls
         /\ (wret[i] # NoRet /\ wret[i].kind = "err") =>
              wret[i].reason \in {"duplicate", "parse", "create", "exists", "link"}

\* C15 witness: a Steam item fell back and was created under its Wiki URL, and a
\* Steam item that resolved failed in parseGameSteam
C15_Witness ==
  /\ hpc = "done"
  /\ \E i, j \in Workers :
       /\ games[i].source = "Steam" /\ Called(i, "steam failed")
       /\ wret[i].kind = "ok" /\ wret[i].url = WikiURL(games[i].name)
       /\ games[j].source = "Steam" /\ ~Called(j, "steam failed")
       /\ Called(j, "parseGameSteam") /\ wret[j].kind = "err" /\ wret[j].reason = "parse"

\* the callers that save under this name, with image data
Savers(f) ==
  {c \in Callers : uop[c].op = "SaveImage" /\ uop[c].name = f /\ uop[c].image # NoBytes}

\* the callers whose call deletes or replaces a file of this name
Touchers(f) ==
  {c \in Callers : \/ uop[c].op = "DeleteImage" /\ uop[c].name = f
                   \/ uop[c].op = "ReplaceImage" /\ f \in {uop[c].name, uop[c].newName}}

\* C16: SaveImage never overwrites. No step of a SaveImage call changes or
\* removes a file that exists; a call with image data returns nil or
\* ErrFileExists; and of the calls that save under one name, concurrently or one
\* after the other, at most one returns nil, every other returns ErrFileExists,
\* and afterwards the one file holds the bytes it had before or, when it was not
\* there, the bytes of the call that returned nil.
C16_SaveNeverOverwrites ==
  /\ [][\A c \in Callers :
          (uop'[c].op = "SaveImage" /\ upc'[c] # upc[c]) =>
            \A p \in DOMAIN files : p \in DOMAIN files' /\ files'[p] = files[p]]_vars
  /\ [](\A f \in FileNames :
          LET oks == {c \in Savers(f) : ures[c] = "ok"} IN
          /\ \A c \in Savers(f) : ures[c] \in {"none", "ok", "ErrFileExists"}
          /\ Touchers(f) = {} =>
               /\ Cardinality(oks) <= 1
               /\ \A c \in Savers(f) :
                    upc[c] = "done" =>
                      /\ Exists(PathOf(f))
                      /\ IF uop[c].existed /\ ures[c] # "ok"
                           THEN ures[c] = "ErrFileExists"
                           ELSE oks # {}
                      /\ \A d \in oks : files[PathOf(f)] = BytesOf(d)
                      /\ oks = {} => files[PathOf(f)] = OldBytes)

\* C16 witness: two calls saved under one name at the same time, both past the
\* check of the arguments before either took the lock; one returned nil, the
\* other ErrFileExists, and the file holds the bytes of the first
C16_Witness ==
  \E c, d \in Callers :
    /\ c # d /\ {c, d} \subseteq Savers("a.jpg")
    /\ ~uop[c].existed /\ ~uop[d].existed
    /\ upc[c] = "done" /\ upc[d] = "done"
    /\ ures[c] = "ok" /\ ures[d] = "ErrFileExists"
    /\ files[PathOf("a.jpg")] = BytesOf(c)

\* C17 (as claimed): ReplaceImage called for an old file that is not there returns
\* an error at once, whatever the new name is.
C17_Original ==
  [][\A c \in Callers :
       (upc[c] = "idle" /\ upc'[c] # "idle" /\ uop'[c].op = "ReplaceImage"
        /\ ~Exists(PathOf(uop'[c].name)))
         => upc'[c] = "done" /\ ures'[c] \notin {"none", "ok"}]_vars

\* C18: DeleteImage and ReplaceImage called at the same time for one file that
\* exists each return nil or ErrFileNotExists, and a temporary file is there only
\* while a ReplaceImage is between writing it and renaming it.
C18_DeleteReplaceRace ==
  /\ \A c, d \in Callers :
       (/\ uop[c].op = "DeleteImage" /\ uop[d].op = "ReplaceImage"
        /\ uop[d].image # NoBytes
        /\ uop[c].name = uop[d].name /\ uop[c].existed /\ uop[d].existed)
         => /\ ures[c] \in {"none", "ok", "ErrFileNotExists"}
            /\ ures[d] \in {"none", "ok", "ErrFileNotExists"}
  /\ \A f \in FileNames :
       Exists(TempOf(f)) =>
         \E c \in Callers : upc[c] = "rename" /\ uop[c].newName = f

\* C18 witness: the file was deleted between the os.Stat of ReplaceImage and its
\* lock; both calls returned nil and the new file is there
C18_Witness ==
  \E c, d \in Callers :
    /\ uop[c].op = "DeleteImage" /\ uop[d].op = "ReplaceImage"
    /\ uop[c].name = uop[d].name /\ uop[c].existed /\ uop[d].existed
    /\ uop[d].newName # uop[d].name
    /\ upc[c] = "done" /\ upc[d] = "done" /\ ures[c] = "ok" /\ ures[d] = "ok"
    /\ Exists(PathOf(uop[d].newName)) /\ ~Exists(PathOf(uop[d].name))

\* C19 (as claimed): every stored link has a priority from 0 to 10, and a request
\* that submits a priority outside of 0..10 is answered 200 and stores 0.
C19_Original ==
  /\ \A r \in userGames : r.priority \in 0..10
  /\ (/\ lastCall.op \in {"Create", "Update", "UpdatePriority"}
      /\ lastCall.priority \notin 0..10
      /\ LinksOf(lastCall.user, lastCall.game) # {})
       => status = StatusOK /\ FirstLink(lastCall.user, lastCall.game).priority = 0

\* C20: CreateUserGame is idempotent per (user, game). A call for a pair that has
\* a link changes nothing in user_games; a call for a pair that has none adds
\* exactly the submitted link; and after requests handled one after the other no
\* pair has two links.
C20_CreateUserGameIdempotent ==
  /\ [](\A r, q \in userGames : (r.user = q.user /\ r.game = q.game) => r = q)
  /\ [][(lastCall'.op = "CreateUserGame" /\ lastCall'.seq # lastCall.seq) =>
          IF LinksOf(lastCall'.user, lastCall'.game) # {}
            THEN userGames' = userGames
            ELSE /\ userGames \subseteq userGames'
                 /\ Cardinality(userGames') = Cardinality(userGames) + 1
                 /\ \A r \in userGames' \ userGames :
                      /\ r.user = lastCall'.user /\ r.game = lastCall'.game
                      /\ r.priority = lastCall'.priority]_vars

\* C20 witness: CreateUserGame was called for a pair that had a link, with another
\* status and priority, and the link is as it was
C20_Witness ==
  /\ lastCall.op = "CreateUserGame"
  /\ \E r \in userGames :
       /\ r.user = lastCall.user /\ r.game = lastCall.game
       /\ r.priority # lastCall.priority /\ r.status = "planned"
       /\ lastCall.status = "finished"

\* C21 (as claimed): UpdateUserGame for a (user, game) pair that has no link
\* returns an error and neither inserts nor updates any link.
C21_Original ==
  [][(/\ lastCall'.op = "UpdateUserGame" /\ lastCall'.seq # lastCall.seq
      /\ LinksOf(lastCall'.user, lastCall'.game) = {})
       => lastCall'.err /\ userGames' = userGames]_vars

Pos(i, c) == CHOOSE k \in 1..Len(calls[i]) : calls[i][k] = c

HasRecord(g) == \E r \in catalog : r.id = g.id /\ r.url = g.url /\ r.image = g.image

HasPlannedLink(g) ==
  \E l \in userGames :
    l.user = userID /\ l.game = g.id /\ l.status = "planned" /\ l.priority = 0

\* C23: every item returned as a success has, from its return to the response,
\* its row in the catalog and a link of the requesting user to it with status
\* planned and priority 0; CreateUserGame is called only after the insert of the
\* row has succeeded; so no item is reported in success with one write only.
C23_SuccessHasBothWrites ==
  /\ \A i \in Workers :
       /\ wret[i].kind = "ok" => HasRecord(wret[i]) /\ HasPlannedLink(wret[i])
       /\ Called(i, "CreateUserGame") =>
            /\ Called(i, "INSERT") /\ Pos(i, "INSERT") < Pos(i, "CreateUserGame")
            /\ \E r \in catalog : r.id = wid[i]
  /\ hpc = "done" =>
       \A k \in 1..Len(createdGames) :
         HasRecord(createdGames[k]) /\ HasPlannedLink(createdGames[k])

\* C23 witness: the response is written; one item is in success with both rows,
\* the other inserted its row, failed to link it and is in errors
C23_Witness ==
  /\ hpc = "done" /\ N = 2 /\ Len(createdGames) = 1 /\ Len(errors) = 1
  /\ HasRecord(createdGames[1]) /\ HasPlannedLink(createdGames[1])
  /\ \E i \in Workers :
       /\ wret[i].kind = "err" /\ Called(i, "CreateUserGame")
       /\ \E r \in catalog : r.id = wid[i]
       /\ \A l \in userGames : l.game # wid[i]

TimedOut(i) == wret[i].kind = "err" /\ wret[i].reason \in TimeoutReasons

C25_DeadlockFree ==
  /\ [](\A i \in Workers : wpc[i] = "start" =>
          Len(errChan) < Capacity /\ Len(resultsChan) < Capacity)
  /\ [](closed => next > N /\ wg = 0 /\ \A i \in Workers : wpc[i] = "done")
  /\ [](hpc = "done" =>
          /\ closed /\ errChan = <<>> /\ resultsChan = <<>>
          /\ Len(errors) + Len(createdGames) = N)
  /\ <>(hpc = "rejected" \/ (hpc = "done" /\ next > N))

\* C25 witness: the response of a batch of more items than permits is written;
\* the loop waited for a permit on the way (ten workers ran before the last item
\* was dispatched) and all eleven outcomes are collected
C25_Witness ==
  /\ hpc = "done" /\ N > maxWorkers /\ closed /\ sem = 0
  /\ Len(errors) + Len(createdGames) = N /\ Len(createdGames) = maxWorkers

\* C26: permits are conserved. In every state of a batch the permits held are as
\* many as the workers dispatched and not yet released; sem changes by one only,
\* up when an item is dispatched and down when a worker ends; a worker ends once,
\* giving back one permit, however its pipeline returned; and when the response
\* is written no permit is held.
C26_PermitConservation ==
  /\ [](sem = Cardinality(InFlight))
  /\ [](hpc = "done" => sem = 0)
  /\ [][\A i \in Workers :
          /\ (wpc[i] # "done" /\ wpc'[i] = "done") => wpc[i] = "exit" /\ sem' = sem - 1
          /\ (wpc[i] = "idle" /\ wpc'[i] # "idle") => sem' = sem + 1
          /\ wpc[i] = "done" => wpc'[i] = "done"]_vars
  /\ [][sem' # sem =>
          \E i \in Workers : (wpc[i] = "idle") # (wpc'[i] = "idle")
                               \/ (wpc[i] = "done") # (wpc'[i] = "done")]_vars

\* C26 witness: the response is written and no permit is held; one worker ended
\* after a success, the other after an error that is not the deadline
C26_Witness ==
  /\ hpc = "done" /\ sem = 0 /\ N = 2 /\ ~ctxDone
  /\ wret[1].kind = "ok" /\ wret[2].kind = "err"
  /\ wpc[1] = "done" /\ wpc[2] = "done"

DeletesSucceeded == \A i \in Workers : ~Called(i, "delete failed")

InsertFailed(i) ==
  wret[i].kind = "err" /\ Called(i, "Create") /\ ~Called(i, "CreateUserGame")

IsCatalogImage(f) == \E r \in catalog : r.image = f

\* C27: no blob is orphaned by a batch. When no DeleteImage call of the batch has
\* failed and the response is written, every blob of the folder (empty when the
\* batch began) is the image of a row of the catalog; an item whose insert failed
\* after it saved an image has called DeleteImage for it, and the image is gone
\* unless a row of the catalog holds it.
C27_NoOrphanBlob ==
  (hpc = "done" /\ DeletesSucceeded) =>
    /\ \A f \in blobs : IsCatalogImage(f)
    /\ \A i \in Workers :
         (InsertFailed(i) /\ wimg[i] # NoImage) =>
           /\ Called(i, "DeleteImage")
           /\ wimg[i] \in blobs => IsCatalogImage(wimg[i])

\* C27 witness: the response is written and no DeleteImage failed; the first item
\* is in the catalog with its image in the folder, the second saved an image,
\* failed to insert its row and its image is gone
C27_Witness ==
  /\ hpc = "done" /\ DeletesSucceeded /\ N = 2
  /\ wret[1].kind = "ok" /\ wimg[1] # NoImage /\ wimg[1] \in blobs
  /\ InsertFailed(2) /\ wimg[2] # NoImage /\ wimg[2] # wimg[1]
  /\ Called(2, "DeleteImage") /\ wimg[2] \notin blobs

ImageStored(r) == r.image # NoImage => r.image \in blobs

\* C28 (as claimed): after any sequence of Create, Update and Delete requests,
\* requests with a failing store call among them, every row of the catalog with an
\* image names a blob of the folder; and a Delete whose service.Delete fails
\* leaves the image of the game in place.
C28_Original ==
  /\ [](\A r \in catalog : ImageStored(r))
  /\ [][(lastCall'.op = "Delete" /\ lastCall'.seq # lastCall.seq) =>
          \A isAdmin \in BOOLEAN :
            (/\ Delete(lastCall'.user, isAdmin, lastCall'.game, "Delete")
             /\ HasGame(lastCall'.game)) => blobs' = blobs]_vars

\* C29 (as claimed): after a Delete of a game by its creator or an administrator
\* that succeeded, no link of any user names the game.
C29_Original ==
  [][(lastCall'.op = "Delete" /\ lastCall'.seq # lastCall.seq) =>
       \A isAdmin \in BOOLEAN :
         (/\ Delete(lastCall'.user, isAdmin, lastCall'.game, "")
          /\ ~Unauthorized(lastCall'.user) /\ HasGame(lastCall'.game)
          /\ (lastCall'.user = GameRow(lastCall'.game).creator \/ isAdmin))
           => \A l \in userGames' : l.game # lastCall'.game]_vars

\* C30 (as claimed): UpdateStatus changes nothing but the status of the link of
\* the caller. For a caller with a link to the game, creator of the game or not,
\* the priority of the link is what it was, the links of other users and the
\* catalog are as they were.
C30_Original ==
  [][(/\ lastCall'.op = "UpdateStatus" /\ lastCall'.seq # lastCall.seq
      /\ ~Unauthorized(lastCall'.user) /\ HasGame(lastCall'.game)
      /\ LinksOf(lastCall'.user, lastCall'.game) # {})
       => /\ catalog' = catalog
          /\ \A l \in userGames :
               IF l.user = lastCall'.user /\ l.game = lastCall'.game
                 THEN \E m \in userGames' : m.id = l.id /\ m.priority = l.priority
                 ELSE l \in userGames']_vars

=============================================================================
